---- MODULE Spec2Model ----
(***************************************************************************)
(* Model of the cipher-scanning pipeline (get_domain_ciphers.py) and of    *)
(* the store it shares with the discovery producer                         *)
(* (subdomain_enumeration.py).                                             *)
(*                                                                         *)
(* The store is the sqlite file domains.db: four tables, each a sequence   *)
(* of rows in insertion order.  A pipeline run (process_domains) is a main *)
(* thread plus one unit of work per host (process_domain_wrapper) run on a *)
(* bounded thread pool.  Several runs may work on the same store.          *)
(***************************************************************************)
EXTENDS Integers, Sequences, FiniteSets, TLC

(***************************************************************************)
(* Bounds of the model.                                                    *)
(***************************************************************************)
\* number of pipeline runs (processes) that may be started, overlapping or not
NumRuns == 2
\* largest number of rows the producer left in domain_names
NumHosts == 2
\* longest report (number of XML elements) given to the parser on its own
MaxElems == 2
\* number of direct calls of the two store operations in the store-only spec
MaxCalls == 2
\* the pool bound of process_domains (32 in the source), scaled down so that
\* a run over NumHosts hosts has fewer workers than hosts
PoolBound == 1
\* longest text (in characters) of a known_subdomains column and of a
\* name_value of a certificate record
MaxStr == 3

Runs == 1..NumRuns

\* attrib.get(name) of an attribute the element does not carry (None)
Absent == "<absent>"
\* the value SQL NULL / a failed lookup
NULL == 0

(***************************************************************************)
(* The report: the scanner's XML.  A well-formed document is the list of   *)
(* the elements below its root in document order; each element has a tag   *)
(* and the five attributes the parser reads (Absent when not present).     *)
(***************************************************************************)
Element(tag, status, sslversion, cipher, id, bits) ==
    [tag |-> tag, status |-> status, sslversion |-> sslversion,
     cipher |-> cipher, id |-> id, bits |-> bits]

Document(nodes) == [wellformed |-> TRUE, nodes |-> nodes]

Malformed == [wellformed |-> FALSE, nodes |-> <<>>]

\* a get that forgets the default
Get_NoDefault(value, default) == value

\* dict.get(key, default)
Get(value, default) == IF value = Absent THEN default ELSE value

\* a status set that lets rejected entries through
AcceptedStatuses_WithRejected == {"accepted", "preferred", "rejected"}

\* line 66: the statuses that count as offered
AcceptedStatuses == {"accepted", "preferred"}

\* a loop body that forgets the status test
AppendIfAccepted_AnyStatus(ciphers, cipher) ==
    Append(ciphers,
           [sslversion  |-> Get(cipher.sslversion, ""),
            cipher_name |-> Get(cipher.cipher, ""),
            bits        |-> Get(cipher.bits, ""),
            cipher_id   |-> Get(cipher.id, ""),
            status      |-> Get(cipher.status, "")])

\* the body of the loop of extract_accepted_ciphers: one cipher element
AppendIfAccepted(ciphers, cipher) ==
    IF cipher.status \in AcceptedStatuses
    THEN Append(ciphers,
                [sslversion  |-> Get(cipher.sslversion, ""),
                 cipher_name |-> Get(cipher.cipher, ""),
                 bits        |-> Get(cipher.bits, ""),
                 cipher_id   |-> Get(cipher.id, ""),
                 status      |-> cipher.status])
    ELSE ciphers

\* root.findall(".//cipher"): the cipher elements, in document order
RECURSIVE FindAllCipher(_)
FindAllCipher(nodes) ==
    IF nodes = <<>> THEN <<>>
    ELSE IF Head(nodes).tag = "cipher"
         THEN <<Head(nodes)>> \o FindAllCipher(Tail(nodes))
         ELSE FindAllCipher(Tail(nodes))

RECURSIVE ExtractLoop(_, _)
ExtractLoop(found, ciphers) ==
    IF found = <<>> THEN ciphers
    ELSE ExtractLoop(Tail(found), AppendIfAccepted(ciphers, Head(found)))

\* extract_accepted_ciphers on a well-formed report
extract_accepted_ciphers(xml_data) ==
    ExtractLoop(FindAllCipher(xml_data.nodes), <<>>)

(***************************************************************************)
(* The store operations, as functions from a table to the table after.     *)
(***************************************************************************)
\* INSERT OR REPLACE instead: the row of the same cipher_id is deleted and
\* the new one inserted
InsertOrIgnoreCipher_Replace(table, cipher) ==
    Append(SelectSeq(table, LAMBDA row : row.cipher_id # cipher.cipher_id), cipher)

\* INSERT OR IGNORE INTO ciphers: cipher_id is the PRIMARY KEY
InsertOrIgnoreCipher(table, cipher) ==
    IF \E i \in 1..Len(table) : table[i].cipher_id = cipher.cipher_id
    THEN table
    ELSE Append(table, cipher)

RECURSIVE insert_ciphers_to_db(_, _)
insert_ciphers_to_db(ciphers, table) ==
    IF ciphers = <<>> THEN table
    ELSE insert_ciphers_to_db(Tail(ciphers),
                              InsertOrIgnoreCipher(table, Head(ciphers)))

\* INSERT OR REPLACE on the pair instead: the rows of the pair are deleted
\* and a new one inserted
InsertOrIgnoreAssoc_Replace(table, domain_id, cipher_id) ==
    Append(SelectSeq(table, LAMBDA row : ~(row.domain_id = domain_id /\
                                            row.cipher_id = cipher_id)),
           [id |-> Len(table) + 1, domain_id |-> domain_id,
            cipher_id |-> cipher_id])

\* INSERT OR IGNORE INTO domain_ciphers (domain_id, cipher_id): the only key
\* of the table is the AUTOINCREMENT id, which the insert does not give
InsertOrIgnoreAssoc(table, domain_id, cipher_id) ==
    LET id == Len(table) + 1 IN
    IF \E i \in 1..Len(table) : table[i].id = id
    THEN table
    ELSE Append(table, [id |-> id, domain_id |-> domain_id,
                        cipher_id |-> cipher_id])

RECURSIVE LinkLoop(_, _, _)
LinkLoop(ciphers, domain_id, table) ==
    IF ciphers = <<>> THEN table
    ELSE LinkLoop(Tail(ciphers), domain_id,
                  InsertOrIgnoreAssoc(table, domain_id, Head(ciphers).cipher_id))

\* SELECT id FROM domain_names WHERE name_value = ? ; fetchone()
SelectDomainId(names, host) ==
    IF \E i \in 1..Len(names) : names[i].name_value = host
    THEN (CHOOSE i \in 1..Len(names) : names[i].name_value = host)
    ELSE NULL

\* a skip query without the condition on t.skip_existing
SkipCount_NoFlag(assocs, names, tldrows, host) ==
    Cardinality({i \in 1..Len(assocs) :
        \E d \in 1..Len(names) :
            assocs[i].domain_id = d /\ names[d].name_value = host})

\* the skip query of process_domain: count of domain_ciphers rows joined to
\* the host's domain_names row and to a tlds row with skip_existing = 1
SkipCount(assocs, names, tldrows, host) ==
    Cardinality({i \in 1..Len(assocs) :
        \E d \in 1..Len(names) :
            /\ assocs[i].domain_id = d
            /\ names[d].name_value = host
            /\ \E t \in 1..Len(tldrows) :
                  /\ names[d].tld_id = t
                  /\ tldrows[t].skip_existing = 1})

\* the associations are given the id after the last row, whether or not the
\* host has a row, and no row is created
LinkHost_NextId(names, assocs, host, found_id, ciphers) ==
    [raised |-> FALSE, names |-> names,
     assocs |-> LinkLoop(ciphers, Len(names) + 1, assocs)]

\* lines 94-105 of map_domain_to_ciphers, given what the lookup returned:
\* create the host when the lookup found none (name_value is UNIQUE, so the
\* plain INSERT raises IntegrityError when the name exists by now), insert
\* one association per cipher, commit.  A raise commits nothing.
LinkHost(names, assocs, host, found_id, ciphers) ==
    LET create == found_id = NULL
        created == IF create
                   THEN Append(names, [tld_id |-> NULL, name_value |-> host])
                   ELSE names
        domain_id == IF create THEN Len(created) ELSE found_id
    IN IF create /\ SelectDomainId(names, host) # NULL
       THEN [raised |-> TRUE, names |-> names, assocs |-> assocs]
       ELSE [raised |-> FALSE, names |-> created,
             assocs |-> LinkLoop(ciphers, domain_id, assocs)]

\* a pool with one worker per host, however many hosts there are
MaxWorkers_Unbounded(domains) == Len(domains)

\* max_workers of process_domains
MaxWorkers(domains) ==
    IF PoolBound < Len(domains) THEN PoolBound ELSE Len(domains)

(***************************************************************************)
(* State.                                                                  *)
(***************************************************************************)
VARIABLES
    tlds,            \* table tlds: rows [name, skip_existing], id = position
    domain_names,    \* table domain_names: rows [tld_id, name_value], id = position
    ciphers,         \* table ciphers: rows keyed by cipher_id
    domain_ciphers,  \* table domain_ciphers: rows [id, domain_id, cipher_id]
    sslscan,         \* whether shutil.which("sslscan") finds the scanner
    run,             \* per pipeline run: the main thread of process_domains
    unit,            \* per run and submitted host: process_domain_wrapper
    xml_in,          \* parser on its own: the report given
    parsed,          \* parser on its own: what extract_accepted_ciphers returned
    call,            \* store operations on their own: the callers
    producer         \* process_tlds of the discovery producer

store == <<tlds, domain_names, ciphers, domain_ciphers>>
vars == <<tlds, domain_names, ciphers, domain_ciphers, sslscan, run, unit,
          xml_in, parsed, call, producer>>

(***************************************************************************)
(* What the environment supplies.                                          *)
(***************************************************************************)
\* hostnames the producer stored; odd rows belong to TLD 1, even rows to none
HostNames == <<"a.example.com", "b.example.com", "c.example.com", "d.example.com">>

ProducedRow(i) ==
    [tld_id |-> IF i % 2 = 1 THEN 1 ELSE NULL, name_value |-> HostNames[i]]

\* reports the scanner may print for a host
CipherA == Element("cipher", "preferred", "TLSv1.2", "ECDHE-RSA-AES256-GCM-SHA384", "C1", "256")
CipherA2 == Element("cipher", "accepted", "TLSv1.3", "TLS_AES_128_GCM_SHA256", "C1", "128")
RejectedB == Element("cipher", "rejected", "TLSv1.2", "RC4-SHA", "C2", "128")

ReportOne == Document(<<CipherA, RejectedB>>)
ReportTwice == Document(<<CipherA2, CipherA2>>)
ReportNone == Document(<<RejectedB>>)

ScanReports == {ReportOne, ReportTwice, ReportNone, Malformed}

NoReport == [wellformed |-> FALSE, nodes |-> <<"none">>]

(***************************************************************************)
(* A unit of work before it is picked up by a worker.                      *)
(***************************************************************************)
NewUnit(host) ==
    [host      |-> host,
     pc        |-> "pending",   \* pending, scan, insert, map, link, done
     outcome   |-> "none",      \* Success, Failed (caught), SystemExit (not caught)
     result    |-> "none",      \* skipped, empty, stored, error, exit
     reported  |-> "none",      \* what the main thread printed for the host
     report    |-> NoReport,    \* xml_output
     ciphers   |-> <<>>,        \* extract_accepted_ciphers(xml_output)
     domain_id |-> NULL,
     conn      |-> <<>>,        \* the connection the unit's statements run on
     closed    |-> FALSE,       \* local_conn.close() was called
     scans     |-> 0,           \* calls of run_sslscan_xml
     \* history: at the skip-check the host had an association row
     hadRows   |-> FALSE]

NoUnits == [i \in {} |-> NewUnit("")]

Started(r) == run[r].pc # "idle"
PoolAlive(r) == run[r].pc \in {"collect", "abort"}
Units(r) == DOMAIN unit[r]
Active(r) == {i \in Units(r) : unit[r][i].pc \notin {"pending", "done"}}

SetUnit(r, i, u) == unit' = [unit EXCEPT ![r][i] = u]

\* the wrapper returns or raises: the locals of process_domain are gone (the
\* report of a unit that stored its findings is kept as history)
Done(u, outcome, result, closed) ==
    [u EXCEPT !.pc = "done", !.outcome = outcome, !.result = result,
              !.closed = closed, !.ciphers = <<>>, !.domain_id = NULL,
              !.report = IF outcome = "Success" THEN u.report ELSE NoReport]

\* rows of domain_ciphers whose domain_id is the id of host's domain_names row
HostRows(host) ==
    {k \in 1..Len(domain_ciphers) :
        /\ domain_ciphers[k].domain_id \in 1..Len(domain_names)
        /\ domain_names[domain_ciphers[k].domain_id].name_value = host}

(***************************************************************************)
(* process_domains, the main thread of a run.                              *)
(***************************************************************************)
\* line 130: the connection setup_database returned to process_domains
MainConnection(r) == <<r, 0>>

SelectNames(names) == [i \in 1..Len(names) |-> names[i].name_value]

\* lines 130-158: load the hosts, size the pool, submit one task per host
StartRun(r) ==
    /\ run[r].pc = "idle"
    /\ \A q \in Runs : q < r => Started(q)
    /\ LET domains == SelectNames(domain_names) IN
       IF domains = <<>>
       THEN /\ run' = [run EXCEPT ![r].pc = "exit0", ![r].conn = MainConnection(r)]
            /\ UNCHANGED unit
       ELSE /\ run' = [run EXCEPT ![r].pc = "collect",
                                  ![r].domains = domains,
                                  ![r].max_workers = MaxWorkers(domains),
                                  ![r].conn = MainConnection(r),
                                  ![r].after = {q \in Runs : run[q].pc \in {"exit0", "exit1"}}]
            /\ unit' = [unit EXCEPT ![r] =
                           [i \in 1..Len(domains) |-> NewUnit(domains[i])]]
    /\ UNCHANGED <<store, sslscan, producer, xml_in, parsed, call>>

\* lines 162-165: as_completed yields a finished future; result() returns the
\* wrapper's pair or raises what the wrapper did not catch
Collect(r, i) ==
    /\ run[r].pc = "collect"
    /\ i \in Units(r)
    /\ unit[r][i].pc = "done"
    /\ unit[r][i].reported = "none"
    /\ IF unit[r][i].outcome = "SystemExit"
       THEN /\ run' = [run EXCEPT ![r].pc = "abort"]
            /\ SetUnit(r, i, [unit[r][i] EXCEPT !.reported = "raised"])
       ELSE /\ run' = [run EXCEPT ![r].completed = @ + 1]
            /\ SetUnit(r, i, [unit[r][i] EXCEPT !.reported = unit[r][i].outcome])
    /\ UNCHANGED <<store, sslscan, producer, xml_in, parsed, call>>

\* lines 167-168: every future was yielded; the run ends normally
Finish(r) ==
    /\ run[r].pc = "collect"
    /\ \A i \in Units(r) : unit[r][i].reported # "none"
    /\ run' = [run EXCEPT ![r].pc = "exit0"]
    /\ UNCHANGED <<store, sslscan, unit, producer, xml_in, parsed, call>>

\* line 156: SystemExit leaves the with-block, whose exit waits for every
\* submitted task; then the interpreter exits with status 1
AbortFinish(r) ==
    /\ run[r].pc = "abort"
    /\ \A i \in Units(r) : unit[r][i].pc = "done"
    /\ run' = [run EXCEPT ![r].pc = "exit1"]
    /\ UNCHANGED <<store, sslscan, unit, producer, xml_in, parsed, call>>

(***************************************************************************)
(* process_domain_wrapper / process_domain, one unit of work.              *)
(***************************************************************************)
\* an except clause that catches BaseException
CaughtByWrapper_All(raised) == TRUE

\* line 147: except Exception catches every exception but SystemExit
CaughtByWrapper(raised) == raised # "SystemExit"

\* lines 146-149: what the future of the unit holds when the unit raised
WrapperOutcome(raised) == IF CaughtByWrapper(raised) THEN "Failed" ELSE raised

\* a wrapper that hands the connection of process_domains to process_domain
WrapperConnection_Shared(r, i) == <<r, 0>>

\* lines 143-144: the unit's connection is the one its wrapper opened; a
\* connection object is named by the run and the unit that opened it
WrapperConnection(r, i) == <<r, i>>

\* line 116: the unit is skipped when the skip query counts a row
process_domain_skips(host) ==
    SkipCount(domain_ciphers, domain_names, tlds, host) > 0

\* lines 141-119: a free worker takes the oldest task of the pool's queue,
\* connects and runs the skip query
Check(r, i) ==
    /\ PoolAlive(r)
    /\ i \in Units(r)
    /\ unit[r][i].pc = "pending"
    /\ \A j \in 1..(i - 1) : unit[r][j].pc # "pending"
    /\ Cardinality(Active(r)) < run[r].max_workers
    /\ LET u == unit[r][i]
           seen == [u EXCEPT !.hadRows = HostRows(u.host) # {},
                             !.conn = WrapperConnection(r, i)]
       IN IF process_domain_skips(u.host)
          THEN SetUnit(r, i, Done(seen, "Success", "skipped", TRUE))
          ELSE SetUnit(r, i, [seen EXCEPT !.pc = "scan"])
    /\ UNCHANGED <<store, sslscan, run, producer, xml_in, parsed, call>>

\* lines 121-125 when the scanner is found and exits with status 0: the
\* report is parsed; a malformed report raises ParseError
ScanReport(r, i) ==
    /\ PoolAlive(r)
    /\ i \in Units(r)
    /\ unit[r][i].pc = "scan"
    /\ sslscan
    /\ \E xml_output \in ScanReports :
          LET u == [unit[r][i] EXCEPT !.scans = @ + 1, !.report = xml_output] IN
          IF ~xml_output.wellformed
          THEN SetUnit(r, i, Done(u, "Failed", "error", FALSE))
          ELSE LET found == extract_accepted_ciphers(xml_output) IN
               IF found = <<>>
               THEN SetUnit(r, i, Done(u, "Success", "empty", TRUE))
               ELSE SetUnit(r, i, [u EXCEPT !.pc = "insert", !.ciphers = found])
    /\ UNCHANGED <<store, sslscan, run, producer, xml_in, parsed, call>>

\* lines 46-48 and 55-58: the scanner is missing, or it exits with a status
\* other than 0; both end in sys.exit(1), which except Exception lets through
ScanExit(r, i) ==
    /\ PoolAlive(r)
    /\ i \in Units(r)
    /\ unit[r][i].pc = "scan"
    /\ SetUnit(r, i, Done([unit[r][i] EXCEPT !.scans = @ + 1],
                          WrapperOutcome("SystemExit"), "exit", FALSE))
    /\ UNCHANGED <<store, sslscan, run, producer, xml_in, parsed, call>>

\* line 126: insert_ciphers_to_db and its commit
InsertCiphers(r, i) ==
    /\ PoolAlive(r)
    /\ i \in Units(r)
    /\ unit[r][i].pc = "insert"
    /\ ciphers' = insert_ciphers_to_db(unit[r][i].ciphers, ciphers)
    /\ SetUnit(r, i, [unit[r][i] EXCEPT !.pc = "map"])
    /\ UNCHANGED <<tlds, domain_names, domain_ciphers, sslscan, run, producer,
                   xml_in, parsed, call>>

\* a store operation of the unit raises (sqlite3.Error): nothing of the open
\* transaction is committed and the wrapper returns (host, False)
StoreError(r, i) ==
    /\ PoolAlive(r)
    /\ i \in Units(r)
    /\ unit[r][i].pc \in {"insert", "map", "link"}
    /\ SetUnit(r, i, Done(unit[r][i], "Failed", "error", FALSE))
    /\ UNCHANGED <<store, sslscan, run, producer, xml_in, parsed, call>>

\* lines 91-92 of map_domain_to_ciphers: look the host up
MapSelect(r, i) ==
    /\ PoolAlive(r)
    /\ i \in Units(r)
    /\ unit[r][i].pc = "map"
    /\ SetUnit(r, i, [unit[r][i] EXCEPT
                        !.pc = "link",
                        !.domain_id = SelectDomainId(domain_names, unit[r][i].host)])
    /\ UNCHANGED <<store, sslscan, run, producer, xml_in, parsed, call>>

\* lines 94-105 of map_domain_to_ciphers, then line 145: the wrapper closes
\* the connection and returns (host, True)
MapInsert(r, i) ==
    /\ PoolAlive(r)
    /\ i \in Units(r)
    /\ unit[r][i].pc = "link"
    /\ LET u == unit[r][i]
           res == LinkHost(domain_names, domain_ciphers, u.host, u.domain_id, u.ciphers)
       IN /\ domain_names' = res.names
          /\ domain_ciphers' = res.assocs
          /\ IF res.raised
             THEN SetUnit(r, i, Done(u, "Failed", "error", FALSE))
             ELSE SetUnit(r, i, Done(u, "Success", "stored", TRUE))
    /\ UNCHANGED <<tlds, ciphers, sslscan, run, producer, xml_in, parsed, call>>

NotParsed == [done |-> FALSE, raised |-> FALSE, ciphers |-> <<>>]

\* process_tlds is not running
NoProducer == [pc |-> "idle", domains |-> <<>>]

NoCall == [pc |-> "idle", n |-> 0, host |-> "", ciphers |-> <<>>,
           domain_id |-> NULL, log |-> <<>>]

(***************************************************************************)
(* The pipeline: runs of process_domains over one store.                   *)
(***************************************************************************)
Init ==
    /\ \E flag \in {0, 1} :
          tlds = <<[name |-> "example.com", skip_existing |-> flag]>>
    /\ \E n \in 0..NumHosts : domain_names = [i \in 1..n |-> ProducedRow(i)]
    /\ ciphers = <<>>
    /\ domain_ciphers = <<>>
    /\ sslscan \in BOOLEAN
    /\ run = [r \in Runs |-> [pc |-> "idle", domains |-> <<>>, max_workers |-> 0,
                              completed |-> 0, after |-> {}, conn |-> <<>>]]
    /\ unit = [r \in Runs |-> NoUnits]
    /\ xml_in = Malformed
    /\ parsed = NotParsed
    /\ call = NoCall
    /\ producer = NoProducer

Next ==
    \E r \in Runs :
        \/ StartRun(r)
        \/ Finish(r)
        \/ AbortFinish(r)
        \/ \E i \in 1..NumHosts :
              \/ Check(r, i)
              \/ ScanReport(r, i)
              \/ ScanExit(r, i)
              \/ InsertCiphers(r, i)
              \/ StoreError(r, i)
              \/ MapSelect(r, i)
              \/ MapInsert(r, i)
              \/ Collect(r, i)

Spec == Init /\ [][Next]_vars

(***************************************************************************)
(* The parser on its own: extract_accepted_ciphers applied to a report.    *)
(***************************************************************************)
\* elements a report may hold: cipher elements with every combination of
\* present and absent attributes, and an element of another tag
ParseElements ==
    {Element("cipher", st, v, c, id, b) :
        st \in {"accepted", "preferred", "rejected", "ACCEPTED", Absent},
        v \in {"TLSv1.2", Absent},
        c \in {"AES256-SHA", Absent},
        id \in {"C1", Absent},
        b \in {"256", Absent}}
    \cup {Element("certificate", "accepted", Absent, Absent, "C1", Absent)}

ParseInputs ==
    {Malformed} \cup
    {Document(nodes) : nodes \in UNION {[1..n -> ParseElements] : n \in 0..MaxElems}}

InitParse ==
    /\ tlds = <<>>
    /\ domain_names = <<>>
    /\ ciphers = <<>>
    /\ domain_ciphers = <<>>
    /\ sslscan = TRUE
    /\ run = [r \in Runs |-> [pc |-> "idle", domains |-> <<>>, max_workers |-> 0,
                              completed |-> 0, after |-> {}, conn |-> <<>>]]
    /\ unit = [r \in Runs |-> NoUnits]
    /\ xml_in \in ParseInputs
    /\ parsed = NotParsed
    /\ call = NoCall
    /\ producer = NoProducer

\* lines 60-78: ET.fromstring raises ParseError on a malformed report
Parse ==
    /\ ~parsed.done
    /\ parsed' = IF xml_in.wellformed
                 THEN [done |-> TRUE, raised |-> FALSE,
                       ciphers |-> extract_accepted_ciphers(xml_in)]
                 ELSE [done |-> TRUE, raised |-> TRUE, ciphers |-> <<>>]
    /\ UNCHANGED <<store, sslscan, run, unit, producer, xml_in, call>>

SpecParse == InitParse /\ [][Parse]_vars

(***************************************************************************)
(* The store operations on their own: a caller that calls                  *)
(* insert_ciphers_to_db and then map_domain_to_ciphers, as process_domain  *)
(* does, with inputs of its choice, several times in sequence.             *)
(***************************************************************************)
Record(id, status, sslversion, name, bits) ==
    [sslversion |-> sslversion, cipher_name |-> name, bits |-> bits,
     cipher_id |-> id, status |-> status]

RecA == Record("C1", "preferred", "TLSv1.2", "ECDHE-RSA-AES256-GCM-SHA384", "256")
RecA2 == Record("C1", "accepted", "TLSv1.3", "TLS_AES_128_GCM_SHA256", "128")
RecB == Record("C2", "accepted", "TLSv1.2", "AES256-SHA", "256")

CallLists == {<<>>, <<RecA>>, <<RecA2>>, <<RecA, RecB>>, <<RecB, RecA2, RecB>>}

\* a host the producer stored and one unknown to the store
CallHosts == {HostNames[1], HostNames[2]}

InitStore ==
    /\ tlds = <<[name |-> "example.com", skip_existing |-> 1]>>
    /\ domain_names = <<ProducedRow(1)>>
    /\ ciphers = <<>>
    /\ domain_ciphers = <<>>
    /\ sslscan = TRUE
    /\ run = [r \in Runs |-> [pc |-> "idle", domains |-> <<>>, max_workers |-> 0,
                              completed |-> 0, after |-> {}, conn |-> <<>>]]
    /\ unit = [r \in Runs |-> NoUnits]
    /\ xml_in = Malformed
    /\ parsed = NotParsed
    /\ call = NoCall
    /\ producer = NoProducer

\* lines 80-87
CallInsertCiphers ==
    /\ call.pc = "idle"
    /\ call.n < MaxCalls
    /\ \E host \in CallHosts, list \in CallLists :
          /\ ciphers' = insert_ciphers_to_db(list, ciphers)
          /\ call' = [call EXCEPT !.pc = "map", !.host = host, !.ciphers = list]
    /\ UNCHANGED <<tlds, domain_names, domain_ciphers, sslscan, run, unit,
                   producer, xml_in, parsed>>

\* lines 91-92
CallMapSelect ==
    /\ call.pc = "map"
    /\ call' = [call EXCEPT !.pc = "link",
                            !.domain_id = SelectDomainId(domain_names, call.host)]
    /\ UNCHANGED <<store, sslscan, run, unit, producer, xml_in, parsed>>

\* lines 94-105; the log keeps, per finished call, its inputs, whether it
\* raised, and the two tables once it returned
CallMapInsert ==
    /\ call.pc = "link"
    /\ LET res == LinkHost(domain_names, domain_ciphers, call.host,
                           call.domain_id, call.ciphers)
       IN /\ domain_names' = res.names
          /\ domain_ciphers' = res.assocs
          /\ call' = [call EXCEPT
                        !.pc = "idle", !.n = @ + 1, !.domain_id = NULL,
                        !.log = Append(@, [host |-> call.host,
                                           ciphers |-> call.ciphers,
                                           raised |-> res.raised,
                                           cipher_rows |-> ciphers,
                                           assoc_rows |-> res.assocs])]
    /\ UNCHANGED <<tlds, ciphers, sslscan, run, unit, producer, xml_in, parsed>>

NextStore == CallInsertCiphers \/ CallMapSelect \/ CallMapInsert

SpecStore == InitStore /\ [][NextStore]_vars

(***************************************************************************)
(* map_domain_to_ciphers under concurrent callers: in every run one unit   *)
(* has committed its ciphers (line 126) and is about to call               *)
(* map_domain_to_ciphers (line 127) on its own connection, for a host that *)
(* the store knows or does not know.  No statement fails for a reason      *)
(* outside the function here, so a raise is one of the function itself.    *)
(***************************************************************************)
MapHosts == {HostNames[1], HostNames[NumHosts + 1]}

MapReports == {ReportOne, ReportTwice}

\* the unit of run r at line 127, with the ciphers of its report
MapCaller(r, host, report) ==
    [NewUnit(host) EXCEPT !.pc = "map", !.report = report,
                          !.ciphers = extract_accepted_ciphers(report),
                          !.conn = WrapperConnection(r, 1), !.scans = 1]

RECURSIVE InsertAll(_, _, _)
\* line 126 of every caller in turn: the ciphers of units r..NumRuns
InsertAll(units, r, table) ==
    IF r > NumRuns THEN table
    ELSE InsertAll(units, r + 1, insert_ciphers_to_db(units[r][1].ciphers, table))

InitMap ==
    /\ tlds = <<[name |-> "example.com", skip_existing |-> 0]>>
    /\ \E n \in 0..NumHosts : domain_names = [i \in 1..n |-> ProducedRow(i)]
    /\ domain_ciphers = <<>>
    /\ sslscan = TRUE
    /\ \E hosts \in [Runs -> MapHosts], reports \in [Runs -> MapReports] :
          /\ unit = [r \in Runs |-> <<MapCaller(r, hosts[r], reports[r])>>]
          /\ run = [r \in Runs |-> [pc |-> "collect", domains |-> <<hosts[r]>>,
                                    max_workers |-> 1, completed |-> 0,
                                    after |-> {}, conn |-> MainConnection(r)]]
    /\ ciphers = InsertAll(unit, 1, <<>>)
    /\ xml_in = Malformed
    /\ parsed = NotParsed
    /\ call = NoCall
    /\ producer = NoProducer

NextMap == \E r \in Runs : MapSelect(r, 1) \/ MapInsert(r, 1)

SpecMap == InitMap /\ [][NextMap]_vars

(***************************************************************************)
(* The discovery producer: process_tlds of subdomain_enumeration.py over   *)
(* one tlds row.  A text is the sequence of its characters.                *)
(***************************************************************************)
Whitespace == {" ", "\n"}

RECURSIVE SplitFrom(_, _, _, _)
\* str.split(sep): the pieces between the separators, empty ones included
SplitFrom(text, sep, piece, pieces) ==
    IF text = <<>> THEN Append(pieces, piece)
    ELSE IF Head(text) = sep
         THEN SplitFrom(Tail(text), sep, <<>>, Append(pieces, piece))
         ELSE SplitFrom(Tail(text), sep, Append(piece, Head(text)), pieces)

Split(text, sep) == SplitFrom(text, sep, <<>>, <<>>)

RECURSIVE Strip(_)
\* str.strip(): leading and trailing whitespace removed
Strip(text) ==
    IF text = <<>> THEN text
    ELSE IF Head(text) \in Whitespace THEN Strip(Tail(text))
    ELSE IF text[Len(text)] \in Whitespace
         THEN Strip(SubSeq(text, 1, Len(text) - 1))
         ELSE text

Sentinel == <<"W", "I", "L", "D", "C", "A", "R", "D">>

\* a producer that stores the names of the certificates as they come
Normalize_Verbatim(domain) == domain

\* line 131: "WILDCARD" + domain[1:] if domain.startswith('*') else domain
Normalize(domain) ==
    IF domain # <<>> /\ Head(domain) = "*"
    THEN Sentinel \o Tail(domain)
    ELSE domain

\* INSERT OR IGNORE INTO domain_names: name_value is UNIQUE
InsertOrIgnoreName(table, tld_id, name_value) ==
    IF \E k \in 1..Len(table) : table[k].name_value = name_value
    THEN table
    ELSE Append(table, [tld_id |-> tld_id, name_value |-> name_value])

RECURSIVE KnownLoop(_, _, _, _)
\* lines 118-124: one name per non-empty piece of known_subdomains
KnownLoop(pieces, tld_id, tld_name, table) ==
    IF pieces = <<>> THEN table
    ELSE LET known_subdomain == Strip(Head(pieces)) IN
         KnownLoop(Tail(pieces), tld_id, tld_name,
                   IF known_subdomain # <<>>
                   THEN InsertOrIgnoreName(table, tld_id,
                                           known_subdomain \o <<".">> \o tld_name)
                   ELSE table)

\* lines 60-67 of fetch_domains_from_crtsh for one certificate record: the
\* set of the stripped, non-empty lines of its name_value
CertDomains(name_value) ==
    LET name_values == Split(name_value, "\n") IN
    {Strip(name_values[k]) : k \in 1..Len(name_values)} \ {<<>>}

\* line 69: list(domains), in an order of the set's choosing
Lists(domains) ==
    {l \in [1..Cardinality(domains) -> domains] :
        \A d \in domains : \E k \in DOMAIN l : l[k] = d}

RECURSIVE CrtshLoop(_, _, _)
\* lines 131-135: every name of the list, normalized, INSERT OR IGNORE
CrtshLoop(domains, tld_id, table) ==
    IF domains = <<>> THEN table
    ELSE CrtshLoop(Tail(domains), tld_id,
                   InsertOrIgnoreName(table, tld_id, Normalize(Head(domains))))

RECURSIVE Texts(_, _)
\* the texts of at most n characters over an alphabet
Texts(alphabet, n) ==
    IF n = 0 THEN {<<>>}
    ELSE LET shorter == Texts(alphabet, n - 1) IN
         shorter \cup {Append(t, c) : t \in shorter, c \in alphabet}

KnownTexts == Texts({"w", "*", ",", " "}, MaxStr)

CertTexts == Texts({"a", "*", ".", "\n"}, MaxStr)

TldName == <<"a">>

\* a name process_tlds stored for the TLD in an earlier execution
StoredBefore == [tld_id |-> 1, name_value |-> <<"w", ".", "a">>]

InitProducer ==
    /\ \E known \in KnownTexts, flag \in {0, 1} :
          tlds = <<[name |-> TldName, known_subdomains |-> known,
                    skip_existing |-> flag]>>
    /\ domain_names \in {<<>>, <<StoredBefore>>}
    /\ ciphers = <<>>
    /\ domain_ciphers = <<>>
    /\ sslscan = TRUE
    /\ run = [r \in Runs |-> [pc |-> "idle", domains |-> <<>>, max_workers |-> 0,
                              completed |-> 0, after |-> {}, conn |-> <<>>]]
    /\ unit = [r \in Runs |-> NoUnits]
    /\ xml_in = Malformed
    /\ parsed = NotParsed
    /\ call = NoCall
    /\ producer = [pc |-> "known", domains |-> <<>>]

\* lines 104-125 for the tlds row: skip the TLD or store its known names
ProducerKnown ==
    /\ producer.pc = "known"
    /\ LET tld_id == 1
           existing_count == Cardinality({k \in 1..Len(domain_names) :
                                             domain_names[k].tld_id = tld_id})
       IN IF tlds[tld_id].skip_existing = 1 /\ existing_count > 0
          THEN /\ producer' = [producer EXCEPT !.pc = "skipped"]
               /\ UNCHANGED domain_names
          ELSE /\ producer' = [producer EXCEPT !.pc = "fetch"]
               /\ domain_names' =
                     KnownLoop(Split(tlds[tld_id].known_subdomains, ","),
                               tld_id, tlds[tld_id].name, domain_names)
    /\ UNCHANGED <<tlds, ciphers, domain_ciphers, sslscan, run, unit, xml_in,
                   parsed, call>>

\* lines 128-139: the names crt.sh returned (here in one certificate record;
\* a failed request is a record without names) are normalized and stored
ProducerCrtsh ==
    /\ producer.pc = "fetch"
    /\ \E name_value \in CertTexts :
          \E domains \in Lists(CertDomains(name_value)) :
              /\ producer' = [producer EXCEPT !.pc = "done", !.domains = domains]
              /\ domain_names' = CrtshLoop(domains, 1, domain_names)
    /\ UNCHANGED <<tlds, ciphers, domain_ciphers, sslscan, run, unit, xml_in,
                   parsed, call>>

NextProducer == ProducerKnown \/ ProducerCrtsh

SpecProducer == InitProducer /\ [][NextProducer]_vars

(***************************************************************************)
(* Vocabulary of the properties.                                           *)
(***************************************************************************)
Exited(r) == run[r].pc \in {"exit0", "exit1"}

\* the host's parent TLD has skip_existing set
TldFlagSet(host) ==
    \E d \in 1..Len(domain_names) :
        /\ domain_names[d].name_value = host
        /\ domain_names[d].tld_id \in 1..Len(tlds)
        /\ tlds[domain_names[d].tld_id].skip_existing = 1

\* cipher ids a report lists as accepted or preferred
ListedOk(report) ==
    {Get(report.nodes[k].id, "") : k \in {j \in 1..Len(report.nodes) :
        /\ report.nodes[j].tag = "cipher"
        /\ report.nodes[j].status \in {"accepted", "preferred"}}}

NoDuplicateCipherRows(table) ==
    \A j, k \in 1..Len(table) : table[j].cipher_id = table[k].cipher_id => j = k

NoDuplicateAssocRows(table) ==
    \A j, k \in 1..Len(table) :
        (/\ table[j].domain_id = table[k].domain_id
         /\ table[j].cipher_id = table[k].cipher_id) => j = k

\* number of rows of the table with the given pair
PairCount(table, domain_id, cipher_id) ==
    Cardinality({k \in 1..Len(table) :
        table[k].domain_id = domain_id /\ table[k].cipher_id = cipher_id})

(***************************************************************************)
(* C1.  In every reachable state of the store, after any sequence of       *)
(* pipeline runs and any scanner reports, domain_ciphers holds at most one *)
(* row per (domain_id, cipher_id) pair.  The code does not keep this: the  *)
(* table has no key on the pair, so INSERT OR IGNORE ignores nothing.      *)
(***************************************************************************)
C1_OneRowPerPair == NoDuplicateAssocRows(domain_ciphers)

(***************************************************************************)
(* C2.  Calling insert_ciphers_to_db and then map_domain_to_ciphers twice  *)
(* with the same inputs leaves ciphers and domain_ciphers with the rows    *)
(* (surrogate ids aside) the first call left, and neither call raises: the *)
(* second call adds zero rows.  The code adds the association rows again.  *)
(***************************************************************************)
SameRows(a, b) ==
    /\ Len(a) = Len(b)
    /\ \A k \in 1..Len(a) :
          PairCount(a, a[k].domain_id, a[k].cipher_id)
            = PairCount(b, a[k].domain_id, a[k].cipher_id)

C2_SecondCallAddsNothing ==
    \A k \in 1..(Len(call.log) - 1) :
        LET first == call.log[k]
            second == call.log[k + 1]
        IN (first.host = second.host /\ first.ciphers = second.ciphers) =>
              /\ ~first.raised
              /\ ~second.raised
              /\ second.cipher_rows = first.cipher_rows
              /\ SameRows(second.assoc_rows, first.assoc_rows)

(***************************************************************************)
(* C3.  Skip policy: a unit whose skip-check has run calls the scanner     *)
(* zero times if and only if, at the skip-check, the host had at least one *)
(* domain_ciphers row and its parent TLD's skip_existing was 1; in every   *)
(* other case (flag cleared, no row, no parent TLD) the scanner is called  *)
(* exactly once for the host in that run.                                  *)
(***************************************************************************)
C3_SkipPolicy ==
    \A r \in Runs : \A i \in Units(r) :
        LET u == unit[r][i]
            eligible == u.hadRows /\ TldFlagSet(u.host)
        IN /\ u.scans \in {0, 1}
           /\ u.pc = "pending" => u.scans = 0
           /\ u.pc # "pending" =>
                 /\ (u.result = "skipped") <=> eligible
                 /\ eligible => (u.pc = "done" /\ u.scans = 0)
                 /\ ~eligible => (u.scans = 0 <=> u.pc = "scan")
                 /\ (~eligible /\ u.pc = "done") => u.scans = 1

\* in one state: a host skipped, and a host with rows scanned again
C3_Witness ==
    \E r \in Runs : \E i, j \in Units(r) :
        /\ unit[r][i].result = "skipped" /\ unit[r][i].scans = 0
        /\ unit[r][j].hadRows /\ unit[r][j].scans = 1 /\ unit[r][j].pc = "done"

(***************************************************************************)
(* C5.  A run over N hosts with fewer workers than hosts, the scanner      *)
(* being installed and returning, ends having reported exactly N per-host  *)
(* outcomes, one per host, each Success or Failed.  The code ends the      *)
(* reporting loop at the first unit whose scanner exits with a non-zero    *)
(* status.                                                                 *)
(***************************************************************************)
C5_AllOutcomesReported ==
    \A r \in Runs :
        (/\ sslscan
         /\ Exited(r)
         /\ run[r].max_workers < Len(run[r].domains)) =>
            /\ run[r].completed = Len(run[r].domains)
            /\ \A i \in Units(r) : unit[r][i].reported \in {"Success", "Failed"}

(***************************************************************************)
(* C6.  Failure containment: a failure inside a host's unit (scanner step, *)
(* parse of a malformed report, store operation) is caught by the wrapper  *)
(* and recorded as Failed for that host, and every sibling's outcome is    *)
(* reported by the time the run ends.  The code's sys.exit in the scanner  *)
(* step is not caught by except Exception.                                 *)
(***************************************************************************)
C6_FailureContained ==
    \A r \in Runs : \A i \in Units(r) :
        (sslscan /\ unit[r][i].result \in {"error", "exit"}) =>
            /\ unit[r][i].outcome = "Failed"
            /\ Exited(r) =>
                  \A j \in Units(r) : unit[r][j].reported \in {"Success", "Failed"}

(***************************************************************************)
(* C7.  Overlapping runs: when two runs both pass the skip-check for a     *)
(* host whose TLD has skip_existing set (so neither had written the host's *)
(* associations when the other checked), both scan and both insert, and    *)
(* the store has no duplicate cipher row and no duplicate association row. *)
(* Stated for two units that both stored the report ReportOne, which lists *)
(* no cipher id twice.  The code stores the association twice.             *)
(***************************************************************************)
C7_OverlapHarmless ==
    \A r, q \in Runs : \A i \in Units(r) : \A j \in Units(q) :
        (/\ r # q
         /\ unit[r][i].host = unit[q][j].host
         /\ TldFlagSet(unit[r][i].host)
         /\ unit[r][i].result = "stored" /\ unit[r][i].report = ReportOne
         /\ unit[q][j].result = "stored" /\ unit[q][j].report = ReportOne
         /\ \A x \in Runs : \A y \in Units(x) :
               <<x, y>> \notin {<<r, i>>, <<q, j>>} => unit[x][y].pc = "pending") =>
            /\ unit[r][i].scans = 1 /\ unit[q][j].scans = 1
            /\ NoDuplicateCipherRows(ciphers)
            /\ NoDuplicateAssocRows(domain_ciphers)

(***************************************************************************)
(* C4.  Status filter: for every well-formed report,                       *)
(* extract_accepted_ciphers returns, in document order, exactly one record *)
(* per cipher element whose status is exactly accepted or preferred and    *)
(* none for any other status or a missing status; each record carries the  *)
(* element's sslversion, cipher, bits, id and status, with the empty       *)
(* string for an absent sslversion, cipher, bits or id.                    *)
(***************************************************************************)
Emitted(nodes, i) ==
    nodes[i].tag = "cipher" /\ nodes[i].status \in {"accepted", "preferred"}

\* position in the output of the record of element i
Rank(nodes, i) == Cardinality({j \in 1..i : Emitted(nodes, j)})

OrEmpty(value) == IF value = Absent THEN "" ELSE value

C4_StatusFilter ==
    (parsed.done /\ xml_in.wellformed) =>
        LET nodes == xml_in.nodes
            out == parsed.ciphers
        IN /\ ~parsed.raised
           /\ Len(out) = Cardinality({i \in 1..Len(nodes) : Emitted(nodes, i)})
           /\ \A i \in 1..Len(nodes) :
                 Emitted(nodes, i) =>
                    /\ out[Rank(nodes, i)].status = nodes[i].status
                    /\ out[Rank(nodes, i)].sslversion = OrEmpty(nodes[i].sslversion)
                    /\ out[Rank(nodes, i)].cipher_name = OrEmpty(nodes[i].cipher)
                    /\ out[Rank(nodes, i)].bits = OrEmpty(nodes[i].bits)
                    /\ out[Rank(nodes, i)].cipher_id = OrEmpty(nodes[i].id)

\* a rejected element followed by a preferred one without an id
C4_Witness ==
    /\ parsed.done
    /\ xml_in.wellformed
    /\ Len(xml_in.nodes) = 2
    /\ xml_in.nodes[1].status = "rejected"
    /\ xml_in.nodes[2].status = "preferred"
    /\ xml_in.nodes[2].id = Absent
    /\ xml_in.nodes[2].bits = "256"
    /\ Len(parsed.ciphers) = 1
    /\ parsed.ciphers[1].cipher_id = ""

(***************************************************************************)
(* C8.  Soundness and completeness of a host unit: once the unit for host  *)
(* h has completed successfully on a report, the store holds a cipher row  *)
(* and an (h, c) association for every cipher id c the report lists as     *)
(* accepted or preferred; and every row a unit adds to ciphers or          *)
(* domain_ciphers has a cipher id its report lists as accepted or          *)
(* preferred (an association also has h's id).  A unit that stored         *)
(* ReportOne (preferred C1, rejected C2) while no other unit wrote leaves  *)
(* exactly one cipher row, C1, and exactly one association row.            *)
(***************************************************************************)
HostId(host) == CHOOSE d \in 1..Len(domain_names) : domain_names[d].name_value = host

C8_Complete ==
    \A r \in Runs : \A i \in Units(r) :
        LET u == unit[r][i] IN
        u.result = "stored" =>
            /\ u.outcome = "Success"
            /\ \A c \in ListedOk(u.report) :
                  /\ \E k \in 1..Len(ciphers) : ciphers[k].cipher_id = c
                  /\ PairCount(domain_ciphers, HostId(u.host), c) >= 1
            /\ (/\ u.report = ReportOne
                /\ \A q \in Runs : \A j \in Units(q) :
                      <<q, j>> # <<r, i>> =>
                         \/ unit[q][j].pc \in {"pending", "scan", "insert"}
                         \/ unit[q][j].result \in {"skipped", "empty", "exit"}) =>
                  /\ Len(ciphers) = 1
                  /\ ciphers[1].cipher_id = "C1"
                  /\ Len(domain_ciphers) = 1
                  /\ domain_ciphers[1].cipher_id = "C1"
                  /\ domain_ciphers[1].domain_id = HostId(u.host)

\* a step of unit (r, i) adds only rows for ids its report lists as offered
C8_SoundStep(r, i) ==
    LET u == unit[r][i] IN
    /\ \A k \in 1..Len(ciphers') :
          (k > Len(ciphers) \/ ciphers'[k] # ciphers[k]) =>
             ciphers'[k].cipher_id \in ListedOk(u.report)
    /\ \A k \in 1..Len(domain_ciphers') :
          (k > Len(domain_ciphers) \/ domain_ciphers'[k] # domain_ciphers[k]) =>
             /\ domain_ciphers'[k].cipher_id \in ListedOk(u.report)
             /\ domain_ciphers'[k].domain_id = HostId(u.host)

C8_Sound ==
    /\ \A r \in Runs : \A i \in Units(r) :
          unit'[r][i] # unit[r][i] => C8_SoundStep(r, i)
    /\ unit' = unit => <<ciphers, domain_ciphers>>' = <<ciphers, domain_ciphers>>

C8_SoundAndComplete == [](C8_Complete) /\ [][C8_Sound]_vars

C8_Witness ==
    \E r \in Runs : \E i \in Units(r) :
        /\ unit[r][i].result = "stored"
        /\ unit[r][i].report = ReportOne
        /\ Len(ciphers) = 1
        /\ Len(domain_ciphers) = 1
        /\ \A k \in 1..Len(ciphers) : ciphers[k].cipher_id # "C2"

(* C9.  Empty result: a unit whose report is well-formed but lists no    *)
(* accepted or preferred entry changes nothing in the store (no cipher     *)
(* row, no association row, no other marker); and in a later run (one      *)
(* started after that run ended) the host is not skipped but scanned       *)
(* again, also when its TLD's skip_existing is set, as long as no third    *)
(* run has stored findings for the host.                                   *)
(***************************************************************************)
FoundNothing(u) == u.report.wellformed /\ ListedOk(u.report) = {}

C9_NoMark ==
    \A r \in Runs : \A i \in Units(r) :
        (unit'[r][i] # unit[r][i] /\ (FoundNothing(unit[r][i]) \/ FoundNothing(unit'[r][i]))) =>
            store' = store

C9_ScannedAgain ==
    \A r, q \in Runs : \A i \in Units(r) : \A j \in Units(q) :
        (/\ FoundNothing(unit[r][i])
         /\ unit[r][i].pc = "done"
         /\ r \in run[q].after
         /\ unit[q][j].host = unit[r][i].host
         /\ unit[q][j].pc # "pending"
         /\ \A x \in Runs \ {r, q} : \A y \in Units(x) :
               unit[x][y].host = unit[r][i].host => unit[x][y].result # "stored") =>
            /\ unit[r][i].outcome = "Success"
            /\ unit[q][j].result # "skipped"
            /\ unit[q][j].pc # "scan" => unit[q][j].scans = 1

C9_EmptyIsRescanned == [](C9_ScannedAgain) /\ [][C9_NoMark]_vars

C9_Witness ==
    \E r, q \in Runs : \E i \in Units(r) : \E j \in Units(q) :
        /\ FoundNothing(unit[r][i])
        /\ unit[r][i].pc = "done"
        /\ r \in run[q].after
        /\ unit[q][j].host = unit[r][i].host
        /\ TldFlagSet(unit[q][j].host)
        /\ unit[q][j].scans = 1
        /\ ciphers = <<>>
        /\ domain_ciphers = <<>>

(***************************************************************************)
(* C10.  Cipher rows are insert-if-absent: no call of insert_ciphers_to_db *)
(* changes a column of a row that exists or adds a second row for its      *)
(* cipher_id, also when the record given has another sslversion, name,     *)
(* bits or status; cipher_id stays unique and each row keeps the           *)
(* attributes of the first observation.                                    *)
(***************************************************************************)
C10_RowsKept ==
    /\ Len(ciphers') >= Len(ciphers)
    /\ \A k \in 1..Len(ciphers) : ciphers'[k] = ciphers[k]

C10_InsertIfAbsent == [](NoDuplicateCipherRows(ciphers)) /\ [][C10_RowsKept]_vars

\* C1 was first stored from RecA; a later call gave RecA2 for C1
C10_Witness ==
    /\ Len(call.log) = 2
    /\ call.log[1].ciphers = <<RecA>>
    /\ call.log[2].ciphers = <<RecB, RecA2, RecB>>
    /\ Len(ciphers) = 2
    /\ ciphers[1] = RecA

(***************************************************************************)
(* C11.  Exit status: a run ends with exit code 1 if some host unit found  *)
(* the scanner missing or the scanner returned non-zero, and with exit     *)
(* code 0 in every other case, however many units ended as Failed through  *)
(* parse or store exceptions.                                              *)
(***************************************************************************)
C11_ExitStatus ==
    \A r \in Runs :
        Exited(r) =>
            (run[r].pc = "exit1" <=> \E i \in Units(r) : unit[r][i].result = "exit")

\* one run ended with 0 although a unit Failed, another ended with 1
C11_Witness ==
    \E r, q \in Runs :
        /\ run[r].pc = "exit0"
        /\ \E i \in Units(r) : unit[r][i].outcome = "Failed"
        /\ run[q].pc = "exit1"
        /\ \E i \in Units(q) : unit[q][i].result = "exit"

(***************************************************************************)
(* C12.  A missing scanner seen by a host unit halts the whole run at      *)
(* once: from then on no unit of the run that has not started is started   *)
(* and no further scan or store write happens in the run.  The code's      *)
(* sys.exit ends only the task: the pool goes on to start the others.      *)
(***************************************************************************)
C12_NoLaterStart ==
    \A r \in Runs :
        (~sslscan /\ \E i \in Units(r) : unit[r][i].result = "exit") =>
            \A j \in Units(r) :
                unit[r][j].pc = "pending" =>
                    /\ unit'[r][j].pc = "pending"
                    /\ unit'[r][j].scans = unit[r][j].scans

C12_MissingScannerHalts == [][C12_NoLaterStart]_vars

(***************************************************************************)
(* C13.  Each concurrent host unit opens and uses its own store            *)
(* connection: no connection is used by two units, and the connection of   *)
(* process_domains is used by the main thread only, never by a unit.       *)
(***************************************************************************)
C13_OwnConnection ==
    \A r, q \in Runs :
        \A i \in Units(r) :
            unit[r][i].conn # <<>> =>
                /\ unit[r][i].conn # run[q].conn
                /\ \A j \in Units(q) :
                       <<r, i>> # <<q, j>> => unit[r][i].conn # unit[q][j].conn

\* two units of one run have used a connection while the run's own is open,
\* and two units are at work at the same moment
C13_Witness ==
    /\ \E r \in Runs :
          /\ run[r].conn # <<>>
          /\ \E i, j \in Units(r) :
                i # j /\ unit[r][i].conn # <<>> /\ unit[r][j].conn # <<>>
    /\ \E r, q \in Runs :
          r # q /\ Active(r) # {} /\ Active(q) # {}

(***************************************************************************)
(* C14.  Bounded concurrency: a run over N >= 1 hosts submits exactly one  *)
(* task per host and has at most min(32, N) units executing at any moment  *)
(* (32 is PoolBound here); a run that finds no host returns without        *)
(* creating a pool or starting any unit.                                   *)
(***************************************************************************)
C14_Limit(n) == IF n < PoolBound THEN n ELSE PoolBound

C14_BoundedPool ==
    \A r \in Runs :
        Started(r) =>
            LET n == Len(run[r].domains) IN
                /\ Units(r) = 1..n
                /\ \A i \in Units(r) : unit[r][i].host = run[r].domains[i]
                /\ \A i, j \in Units(r) :
                       i # j => unit[r][i].host # unit[r][j].host
                /\ Cardinality(Active(r)) <= C14_Limit(n)
                /\ n = 0 => run[r].pc = "exit0" /\ run[r].max_workers = 0

\* a run over more hosts than workers with a full pool and a task waiting
C14_Witness ==
    \E r \in Runs :
        /\ Len(run[r].domains) > PoolBound
        /\ Cardinality(Active(r)) = PoolBound
        /\ \E i \in Units(r) : unit[r][i].pc = "pending"

(***************************************************************************)
(* C15.  Frame of a run: a run never updates or deletes a tlds row or an   *)
(* existing row of domain_names, ciphers or domain_ciphers; its only       *)
(* effects are insertions into ciphers and domain_ciphers, and into        *)
(* domain_names only for a host the store does not know.                   *)
(***************************************************************************)
IsPrefix(a, b) == Len(a) <= Len(b) /\ \A k \in 1..Len(a) : b[k] = a[k]

C15_OnlyInserts ==
    /\ tlds' = tlds
    /\ IsPrefix(domain_names, domain_names')
    /\ IsPrefix(ciphers, ciphers')
    /\ IsPrefix(domain_ciphers, domain_ciphers')
    /\ \A k \in (Len(domain_names) + 1)..Len(domain_names') :
           \A j \in 1..Len(domain_names) :
               domain_names[j].name_value # domain_names'[k].name_value

C15_Frame == [][C15_OnlyInserts]_vars

\* two units have stored the same pair one after the other: the second wrote
\* into tables that held rows
C15_Witness ==
    /\ Len(ciphers) >= 1
    /\ \E k, l \in 1..Len(domain_ciphers) :
          /\ k < l
          /\ domain_ciphers[k].domain_id = domain_ciphers[l].domain_id
          /\ domain_ciphers[k].cipher_id = domain_ciphers[l].cipher_id

(***************************************************************************)
(* C16.  Host resolution: when map_domain_to_ciphers(host, records)        *)
(* returns, domain_names has exactly one row whose name_value is host, an  *)
(* existing row is reused, the associations inserted carry its id, and no  *)
(* call raises, also when two units call it for the same unknown host at   *)
(* the same time.  In the code both lookups can find nothing, and the      *)
(* second plain INSERT then raises IntegrityError on the UNIQUE name.       *)
(***************************************************************************)
NameRows(names, host) == {k \in 1..Len(names) : names[k].name_value = host}

C16_Returns(r) ==
    LET u == unit[r][1] IN
    (u.pc = "link" /\ unit'[r][1].pc = "done") =>
        /\ unit'[r][1].outcome = "Success"
        /\ Cardinality(NameRows(domain_names', u.host)) = 1
        /\ NameRows(domain_names, u.host) \subseteq NameRows(domain_names', u.host)
        /\ \A k \in (Len(domain_ciphers) + 1)..Len(domain_ciphers') :
               domain_ciphers'[k].domain_id \in NameRows(domain_names', u.host)

C16_OneRowNoError == [][\A r \in Runs : C16_Returns(r)]_vars

(***************************************************************************)
(* C17.  Wildcard normalization.  As claimed: every hostname process_tlds  *)
(* stores, from the certificate-transparency results and from a TLD's      *)
(* known_subdomains alike, has no '*' in its name_value.  The code only    *)
(* replaces a leading '*' of a certificate name, and stores the names      *)
(* built from known_subdomains as they are.                                *)
(***************************************************************************)
HasStar(text) == \E k \in 1..Len(text) : text[k] = "*"

C17_NoStarStored ==
    \A k \in 1..Len(domain_names) : ~HasStar(domain_names[k].name_value)

(***************************************************************************)
(* C17, amended.  For every hostname of the certificate-transparency       *)
(* results process_tlds stores the name with a leading '*' replaced by     *)
(* WILDCARD and the rest unchanged: '*.a' is stored as 'WILDCARD.a', and   *)
(* the stored name has a '*' exactly when the name has one after its first *)
(* character.  A name built from known_subdomains is stored as it is.      *)
(***************************************************************************)
StoredNames == {domain_names[k].name_value : k \in 1..Len(domain_names)}

KnownPieces ==
    LET pieces == Split(tlds[1].known_subdomains, ",") IN
    {Strip(pieces[k]) : k \in 1..Len(pieces)} \ {<<>>}

WithSentinel(name) ==
    IF name[1] = "*"
    THEN [k \in 1..(Len(name) + 7) |->
             IF k <= 8 THEN Sentinel[k] ELSE name[k - 7]]
    ELSE name

C17_LeadingStarReplaced ==
    producer.pc = "done" =>
        /\ \A k \in 1..Len(producer.domains) :
              LET name == producer.domains[k] IN
                  /\ WithSentinel(name) \in StoredNames
                  /\ HasStar(WithSentinel(name)) <=> HasStar(Tail(name))
        /\ <<"*", ".", "a">> \in {producer.domains[k] : k \in 1..Len(producer.domains)}
              => Sentinel \o <<".", "a">> \in StoredNames
        /\ \A piece \in KnownPieces :
              piece \o <<".">> \o TldName \in StoredNames

\* '*.a' came from crt.sh and was stored as 'WILDCARD.a', next to a known
\* subdomain '*' stored as '*.a'
C17_Witness ==
    /\ producer.pc = "done"
    /\ producer.domains = <<<<"*", ".", "a">>>>
    /\ Sentinel \o <<".", "a">> \in StoredNames
    /\ <<"*", ".", "a">> \in StoredNames

(***************************************************************************)
(* C18.  Referential integrity under partial failure: in every reachable   *)
(* state every domain_ciphers row refers to a cipher_id that is in ciphers *)
(* and to a domain_id that is in domain_names, also when a unit fails      *)
(* between the commit of its ciphers and the commit of its associations;   *)
(* and no step commits an association whose cipher row is not committed    *)
(* before the step.                                                        *)
(***************************************************************************)
CipherIds(table) == {table[k].cipher_id : k \in 1..Len(table)}

C18_Referenced ==
    \A k \in 1..Len(domain_ciphers) :
        /\ domain_ciphers[k].cipher_id \in CipherIds(ciphers)
        /\ domain_ciphers[k].domain_id \in 1..Len(domain_names)

C18_CipherFirst ==
    \A k \in (Len(domain_ciphers) + 1)..Len(domain_ciphers') :
        domain_ciphers'[k].cipher_id \in CipherIds(ciphers)

C18_Integrity == [](C18_Referenced) /\ [][C18_CipherFirst]_vars

\* the only unit that has run committed its ciphers and then failed: ciphers
\* has rows and no association was stored
C18_Witness ==
    \E r \in Runs :
        \E i \in Units(r) :
            /\ unit[r][i].result = "error"
            /\ Len(ciphers) >= 1
            /\ domain_ciphers = <<>>
            /\ \A j \in Units(r) \ {i} : unit[r][j].pc = "pending"
            /\ \A q \in Runs \ {r} : \A j \in Units(q) : unit[q][j].pc = "pending"

(***************************************************************************)
(* C19.  Connection lifecycle: every connection process_domain_wrapper     *)
(* opens is closed by the time its unit returns its outcome, when the unit *)
(* succeeds (skipped and empty hosts included) and when it fails with an   *)
(* exception.  The code calls close() on the path without exception only.  *)
(***************************************************************************)
C19_ClosedOnReturn ==
    \A r \in Runs :
        \A i \in Units(r) :
            unit[r][i].pc = "done" => unit[r][i].closed

====
